---- MODULE Spec2Model ----
(***************************************************************************)
(* A model of the jsonpp pull tokenizer (include/jsonpp/tokenizer.hpp).    *)
(* The input buffer is a sequence of one-character strings; pos_ is the    *)
(* 0-based offset of the code, so input_[pos_] is input[pos + 1] here.     *)
(***************************************************************************)
EXTENDS Integers, Sequences, FiniteSets, TLC

VARIABLES input, pos, line, column, result, tokens, extracted, pieces

vars == <<input, pos, line, column, result, tokens, extracted, pieces>>

(***************************************************************************)
(* Bounds of the model.                                                    *)
(***************************************************************************)
\* the longest input is a concatenation of this many pieces
MaxPieces == 2
\* the caller stops after this many identical outcomes in a row
MaxIdle == 3

(***************************************************************************)
(* Characters                                                              *)
(***************************************************************************)
QUOTE == "\""
BSLASH == "\\"

Digits == {"0", "1", "2", "3", "4", "5", "6", "7", "8", "9"}

\* mutant: the carriage return is not taken for whitespace
is_whitespace_no_cr(c) == c = " " \/ c = "\t" \/ c = "\n"

is_whitespace(c) == c = " " \/ c = "\t" \/ c = "\r" \/ c = "\n"

is_digit(c) == c \in Digits

(***************************************************************************)
(* Token, TokenizerError and the outcome of a call                         *)
(***************************************************************************)
TokenType == {"STRING", "NUMBER", "BOOLEAN_TRUE", "BOOLEAN_FALSE", "NULL_VALUE",
              "OBJECT_START", "OBJECT_END", "ARRAY_START", "ARRAY_END",
              "COLON", "COMMA", "END_OF_INPUT"}

Token(t, v, l, c) == [type |-> t, value |-> v, line |-> l, column |-> c]

\* a call that returns a Token
Returned(tok) == [tag |-> "return", token |-> tok]

\* a call that throws TokenizerError(message, line, column); the message is
\* kept as the sequence of the strings the code concatenates
TokenizerError(msg, l, c) == [tag |-> "throw", message |-> msg, line |-> l, column |-> c]

\* no call has been made yet
NoCall == [tag |-> "none"]

(***************************************************************************)
(* The cursor: pos_, line_, column_                                        *)
(***************************************************************************)
Cursor(p, l, c) == [pos |-> p, line |-> l, column |-> c]

\* input_[pos_]; only used where the code has checked pos_ < input_.size()
Cur(cur) == input[cur.pos + 1]

\* std::string_view::substr(start, count)
substr(start, count) ==
    SubSeq(input, start + 1, IF start + count <= Len(input) THEN start + count ELSE Len(input))

\* mutant: a line feed starts a new line but the column keeps counting
advance_no_column_reset(cur) ==
    IF cur.pos < Len(input)
    THEN IF Cur(cur) = "\n"
         THEN Cursor(cur.pos + 1, cur.line + 1, cur.column + 1)
         ELSE Cursor(cur.pos + 1, cur.line, cur.column + 1)
    ELSE cur

advance(cur) ==
    IF cur.pos < Len(input)
    THEN IF Cur(cur) = "\n"
         THEN Cursor(cur.pos + 1, cur.line + 1, 1)
         ELSE Cursor(cur.pos + 1, cur.line, cur.column + 1)
    ELSE cur

\* mutant: an if in place of the while, one whitespace character is skipped
skip_whitespace_once(cur) ==
    IF cur.pos < Len(input) /\ is_whitespace(Cur(cur))
    THEN advance(cur)
    ELSE cur

RECURSIVE skip_whitespace(_)
skip_whitespace(cur) ==
    IF cur.pos < Len(input) /\ is_whitespace(Cur(cur))
    THEN skip_whitespace(advance(cur))
    ELSE cur

\* what a scan leaves behind: the cursor and the outcome of the call
Scan(cur, out) == [cur |-> cur, out |-> out]

(***************************************************************************)
(* parse_string                                                            *)
(***************************************************************************)
\* mutant: a backslash is scanned like any other character, so the quote after
\* it ends the string
RECURSIVE string_loop_no_escape(_)
string_loop_no_escape(cur) ==
    IF cur.pos < Len(input) /\ Cur(cur) # QUOTE
    THEN string_loop_no_escape(advance(cur))
    ELSE [cur |-> cur, err |-> <<>>]

\* mutant: the end of the buffer is not looked for after a backslash
RECURSIVE string_loop_unchecked_escape(_)
string_loop_unchecked_escape(cur) ==
    IF cur.pos < Len(input) /\ Cur(cur) # QUOTE
    THEN IF Cur(cur) = BSLASH
         THEN string_loop_unchecked_escape(advance(advance(cur)))
         ELSE string_loop_unchecked_escape(advance(cur))
    ELSE [cur |-> cur, err |-> <<>>]

\* the while loop of parse_string; err is the message thrown inside the loop,
\* or <<>> when the loop ends normally
RECURSIVE string_loop(_)
string_loop(cur) ==
    IF cur.pos < Len(input) /\ Cur(cur) # QUOTE
    THEN IF Cur(cur) = BSLASH
         THEN LET esc == advance(cur) IN
              IF esc.pos >= Len(input)
              THEN [cur |-> esc, err |-> <<"Unterminated string escape">>]
              ELSE string_loop(advance(esc))
         ELSE string_loop(advance(cur))
    ELSE [cur |-> cur, err |-> <<>>]

\* mutant: the content starts at the opening quote
parse_string_from_quote(cur, token_line, token_column) ==
    LET start_pos == cur.pos
        loop == string_loop(advance(cur))
        at == loop.cur
    IN  IF loop.err # <<>>
        THEN Scan(at, TokenizerError(loop.err, at.line, at.column))
        ELSE IF at.pos >= Len(input)
        THEN Scan(at, TokenizerError(<<"Unterminated string">>, at.line, at.column))
        ELSE LET closed == advance(at)
                 content == substr(start_pos, closed.pos - start_pos - 2)
             IN  Scan(closed, Returned(Token("STRING", content, token_line, token_column)))

parse_string(cur, token_line, token_column) ==
    LET start_pos == cur.pos
        loop == string_loop(advance(cur))
        at == loop.cur
    IN  IF loop.err # <<>>
        THEN Scan(at, TokenizerError(loop.err, at.line, at.column))
        ELSE IF at.pos >= Len(input)
        THEN Scan(at, TokenizerError(<<"Unterminated string">>, at.line, at.column))
        ELSE LET closed == advance(at)
                 content == substr(start_pos + 1, closed.pos - start_pos - 2)
             IN  Scan(closed, Returned(Token("STRING", content, token_line, token_column)))

(***************************************************************************)
(* parse_literal                                                           *)
(***************************************************************************)
\* the for loop of parse_literal over literal[i..]
RECURSIVE literal_loop(_, _, _)
literal_loop(cur, literal, i) ==
    IF i > Len(literal)
    THEN [cur |-> cur, err |-> <<>>]
    ELSE IF cur.pos >= Len(input) \/ Cur(cur) # literal[i]
    THEN [cur |-> cur, err |-> <<"Invalid literal">>]
    ELSE literal_loop(advance(cur), literal, i + 1)

\* mutant: substr(start_pos) without the count, the value runs to the end of
\* the buffer
parse_literal_value_to_end(cur, literal, type, token_line, token_column) ==
    LET start_pos == cur.pos
        loop == literal_loop(cur, literal, 1)
        at == loop.cur
    IN  IF loop.err # <<>>
        THEN Scan(at, TokenizerError(loop.err, at.line, at.column))
        ELSE Scan(at, Returned(Token(type, substr(start_pos, Len(input)),
                                     token_line, token_column)))

\* mutant: a literal must be followed by the end of the buffer, whitespace or
\* a structural character
parse_literal_delimited(cur, literal, type, token_line, token_column) ==
    LET start_pos == cur.pos
        loop == literal_loop(cur, literal, 1)
        at == loop.cur
    IN  IF loop.err # <<>>
        THEN Scan(at, TokenizerError(loop.err, at.line, at.column))
        ELSE IF at.pos < Len(input) /\ ~is_whitespace(Cur(at))
                /\ Cur(at) \notin {"{", "}", "[", "]", ":", ","}
        THEN Scan(at, TokenizerError(<<"Invalid literal">>, at.line, at.column))
        ELSE Scan(at, Returned(Token(type, substr(start_pos, Len(literal)),
                                     token_line, token_column)))

\* mutant: the cursor is put back on the first character before the throw
parse_literal_rewinding(cur, literal, type, token_line, token_column) ==
    LET start_pos == cur.pos
        loop == literal_loop(cur, literal, 1)
        at == loop.cur
    IN  IF loop.err # <<>>
        THEN Scan(cur, TokenizerError(loop.err, at.line, at.column))
        ELSE Scan(at, Returned(Token(type, substr(start_pos, Len(literal)),
                                     token_line, token_column)))

parse_literal(cur, literal, type, token_line, token_column) ==
    LET start_pos == cur.pos
        loop == literal_loop(cur, literal, 1)
        at == loop.cur
    IN  IF loop.err # <<>>
        THEN Scan(at, TokenizerError(loop.err, at.line, at.column))
        ELSE Scan(at, Returned(Token(type, substr(start_pos, Len(literal)),
                                     token_line, token_column)))

(***************************************************************************)
(* parse_number                                                            *)
(***************************************************************************)
\* while (pos_ < input_.size() && is_digit(input_[pos_])) advance();
RECURSIVE skip_digits(_)
skip_digits(cur) ==
    IF cur.pos < Len(input) /\ is_digit(Cur(cur))
    THEN skip_digits(advance(cur))
    ELSE cur

NoDigitAt(cur) == cur.pos >= Len(input) \/ ~is_digit(Cur(cur))

\* mutant: the integer part is any run of digits, leading zeros included
integer_part_digit_run(cur) == skip_digits(cur)

\* the integer part: a single 0, or a run of digits
integer_part(cur) ==
    IF Cur(cur) = "0" THEN advance(cur) ELSE skip_digits(cur)

\* the optional fractional part
fractional_part(cur) ==
    IF cur.pos < Len(input) /\ Cur(cur) = "."
    THEN LET dot == advance(cur) IN
         IF NoDigitAt(dot)
         THEN [cur |-> dot, err |-> <<"Invalid number format: missing fractional digits">>]
         ELSE [cur |-> skip_digits(dot), err |-> <<>>]
    ELSE [cur |-> cur, err |-> <<>>]

\* mutant: the digits of the exponent are not required
exponent_part_unchecked(cur) ==
    IF cur.pos < Len(input) /\ (Cur(cur) = "e" \/ Cur(cur) = "E")
    THEN LET e == advance(cur)
             sign == IF e.pos < Len(input) /\ (Cur(e) = "+" \/ Cur(e) = "-")
                     THEN advance(e) ELSE e
         IN  [cur |-> skip_digits(sign), err |-> <<>>]
    ELSE [cur |-> cur, err |-> <<>>]

\* the optional exponent part
exponent_part(cur) ==
    IF cur.pos < Len(input) /\ (Cur(cur) = "e" \/ Cur(cur) = "E")
    THEN LET e == advance(cur)
             sign == IF e.pos < Len(input) /\ (Cur(e) = "+" \/ Cur(e) = "-")
                     THEN advance(e) ELSE e
         IN  IF NoDigitAt(sign)
             THEN [cur |-> sign, err |-> <<"Invalid number format: missing exponent digits">>]
             ELSE [cur |-> skip_digits(sign), err |-> <<>>]
    ELSE [cur |-> cur, err |-> <<>>]

parse_number(cur, token_line, token_column) ==
    LET start_pos == cur.pos
        minus == IF Cur(cur) = "-" THEN advance(cur) ELSE cur
    IN  IF NoDigitAt(minus)
        THEN Scan(minus, TokenizerError(<<"Invalid number format">>, minus.line, minus.column))
        ELSE LET frac == fractional_part(integer_part(minus)) IN
             IF frac.err # <<>>
             THEN Scan(frac.cur, TokenizerError(frac.err, frac.cur.line, frac.cur.column))
             ELSE LET exp == exponent_part(frac.cur) IN
                  IF exp.err # <<>>
                  THEN Scan(exp.cur, TokenizerError(exp.err, exp.cur.line, exp.cur.column))
                  ELSE Scan(exp.cur,
                            Returned(Token("NUMBER", substr(start_pos, exp.cur.pos - start_pos),
                                           token_line, token_column)))

(***************************************************************************)
(* next_token                                                              *)
(***************************************************************************)
\* mutant: the cursor moves on when END_OF_INPUT is returned
end_of_input_advancing(cur) ==
    [cur |-> Cursor(cur.pos + 1, cur.line, cur.column + 1),
     out |-> Returned(Token("END_OF_INPUT", <<>>, cur.line, cur.column))]

\* if (pos_ >= input_.size()) return Token{END_OF_INPUT, {}, line_, column_};
end_of_input(cur) ==
    Scan(cur, Returned(Token("END_OF_INPUT", <<>>, cur.line, cur.column)))

\* mutant: a structural token is returned without advance()
structural_no_advance(cur, type, token_line, token_column) ==
    Scan(cur, Returned(Token(type, <<>>, token_line, token_column)))

\* mutant: the token carries the character as its text
structural_with_text(cur, type, token_line, token_column) ==
    Scan(advance(cur), Returned(Token(type, substr(cur.pos, 1), token_line, token_column)))

\* the six one-character cases of the switch
structural(cur, type, token_line, token_column) ==
    Scan(advance(cur), Returned(Token(type, <<>>, token_line, token_column)))

\* mutant: the default case returns an in-band error token where the scanners
\* throw
unexpected_character_in_band(cur, current) ==
    Scan(cur, Returned(Token("ERROR", <<>>, cur.line, cur.column)))

\* mutant: the offending character is skipped before the error is thrown
unexpected_character_skipping(cur, current) ==
    Scan(advance(cur),
         TokenizerError(<<"Unexpected character: ", current>>, cur.line, cur.column))

\* the default case of the switch
unexpected_character(cur, current) ==
    Scan(cur, TokenizerError(<<"Unexpected character: ", current>>, cur.line, cur.column))

\* the switch on the current character
dispatch(cur, current, token_line, token_column) ==
    CASE current = "{" -> structural(cur, "OBJECT_START", token_line, token_column)
      [] current = "}" -> structural(cur, "OBJECT_END", token_line, token_column)
      [] current = "[" -> structural(cur, "ARRAY_START", token_line, token_column)
      [] current = "]" -> structural(cur, "ARRAY_END", token_line, token_column)
      [] current = ":" -> structural(cur, "COLON", token_line, token_column)
      [] current = "," -> structural(cur, "COMMA", token_line, token_column)
      [] current = QUOTE -> parse_string(cur, token_line, token_column)
      [] current = "t" -> parse_literal(cur, <<"t", "r", "u", "e">>, "BOOLEAN_TRUE",
                                        token_line, token_column)
      [] current = "f" -> parse_literal(cur, <<"f", "a", "l", "s", "e">>, "BOOLEAN_FALSE",
                                        token_line, token_column)
      [] current = "n" -> parse_literal(cur, <<"n", "u", "l", "l">>, "NULL_VALUE",
                                        token_line, token_column)
      [] current = "-" \/ is_digit(current) -> parse_number(cur, token_line, token_column)
      [] OTHER -> unexpected_character(cur, current)

next_token(cur) ==
    LET at == skip_whitespace(cur) IN
    IF at.pos >= Len(input)
    THEN end_of_input(at)
    ELSE dispatch(at, Cur(at), at.line, at.column)

(***************************************************************************)
(* extract_number, extract_boolean, extract_string                         *)
(***************************************************************************)
\* an extraction that returns a value
Value(v) == [tag |-> "return", value |-> v]

\* an extraction that throws std::invalid_argument(message)
InvalidArgument(msg) == [tag |-> "throw", exception |-> "std::invalid_argument", message |-> msg]

DigitVal(c) == CHOOSE n \in 0..9 : <<"0", "1", "2", "3", "4", "5", "6", "7", "8", "9">>[n + 1] = c

\* the number of digits of s from index i on
RECURSIVE DigitRun(_, _)
DigitRun(s, i) == IF i <= Len(s) /\ is_digit(s[i]) THEN 1 + DigitRun(s, i + 1) ELSE 0

\* the value of a digit string, saturating at 100000 (an exponent that large is
\* out of the range of double whatever its exact value)
RECURSIVE ToNatFrom(_, _, _)
ToNatFrom(ds, i, acc) ==
    IF i > Len(ds) THEN acc
    ELSE LET n == 10 * acc + DigitVal(ds[i]) IN
         ToNatFrom(ds, i + 1, IF n > 100000 THEN 100000 ELSE n)

ToNat(ds) == ToNatFrom(ds, 1, 0)

RECURSIVE StripLeadingZeros(_)
StripLeadingZeros(ds) ==
    IF ds # <<>> /\ Head(ds) = "0" THEN StripLeadingZeros(Tail(ds)) ELSE ds

RECURSIVE TrailingZeros(_)
TrailingZeros(ds) ==
    IF ds # <<>> /\ ds[Len(ds)] = "0" THEN 1 + TrailingZeros(SubSeq(ds, 1, Len(ds) - 1)) ELSE 0

\* std::from_chars(first, last, double&): the longest prefix of the form
\* [-] digits [. digits] [(e|E) [+|-] digits] is converted; the value is kept as
\* a sign, the significant decimal digits and a decimal exponent (the rounding
\* to 53 bits is not modelled); a nonzero double lies between 10^-324 and 10^308
from_chars(s) ==
    LET neg == Len(s) > 0 /\ s[1] = "-"
        i0 == IF neg THEN 2 ELSE 1
        ni == DigitRun(s, i0)
        i1 == i0 + ni
        hasDot == i1 <= Len(s) /\ s[i1] = "."
        nf == IF hasDot THEN DigitRun(s, i1 + 1) ELSE 0
        i2 == IF hasDot THEN i1 + 1 + nf ELSE i1
        hasE == i2 <= Len(s) /\ s[i2] \in {"e", "E"}
        hasSign == hasE /\ i2 + 1 <= Len(s) /\ s[i2 + 1] \in {"+", "-"}
        i3 == IF hasSign THEN i2 + 2 ELSE i2 + 1
        ne == IF hasE THEN DigitRun(s, i3) ELSE 0
        all == StripLeadingZeros(SubSeq(s, i0, i1 - 1) \o SubSeq(s, i1 + 1, i1 + nf))
        tz == TrailingZeros(all)
        digits == SubSeq(all, 1, Len(all) - tz)
        e == IF ne > 0 THEN ToNat(SubSeq(s, i3, i3 + ne - 1)) ELSE 0
        exp10 == (IF hasSign /\ s[i2 + 1] = "-" THEN 0 - e ELSE e) - nf + tz
        magnitude == exp10 + Len(digits) - 1
    IN  IF ni + nf = 0
        THEN [ec |-> "invalid_argument", result |-> 0]
        ELSE IF digits # <<>> /\ (magnitude > 308 \/ magnitude < -324)
        THEN [ec |-> "result_out_of_range", result |-> 0]
        ELSE [ec |-> "", result |-> [neg |-> neg, digits |-> digits,
                                     exp10 |-> IF digits = <<>> THEN 0 ELSE exp10]]

extract_number(token) ==
    IF token.type # "NUMBER"
    THEN InvalidArgument("Token is not a number")
    ELSE LET r == from_chars(token.value) IN
         IF r.ec # ""
         THEN InvalidArgument("Failed to parse number")
         ELSE Value(r.result)

\* mutant: the case for BOOLEAN_FALSE is missing a return and falls into true
extract_boolean_fallthrough(token) ==
    CASE token.type \in {"BOOLEAN_TRUE", "BOOLEAN_FALSE"} -> Value(TRUE)
      [] OTHER -> InvalidArgument("Token is not a boolean")

extract_boolean(token) ==
    CASE token.type = "BOOLEAN_TRUE" -> Value(TRUE)
      [] token.type = "BOOLEAN_FALSE" -> Value(FALSE)
      [] OTHER -> InvalidArgument("Token is not a boolean")

extract_string(token) ==
    IF token.type # "STRING"
    THEN InvalidArgument("Token is not a string")
    ELSE Value(token.value)

(***************************************************************************)
(* The inputs: concatenations of pieces. A piece is a lexeme of the JSON   *)
(* token grammar (kind = its token type), a whitespace character (WS) or a *)
(* fragment that is no lexeme on its own (JUNK).                           *)
(***************************************************************************)
Piece(kind, text) == [kind |-> kind, text |-> text]

Str(chars) == Piece("STRING", <<QUOTE>> \o chars \o <<QUOTE>>)
Num(chars) == Piece("NUMBER", chars)
Ws(c) == Piece("WS", <<c>>)
Junk(chars) == Piece("JUNK", chars)

LBrace == Piece("OBJECT_START", <<"{">>)
RBrace == Piece("OBJECT_END", <<"}">>)
LBracket == Piece("ARRAY_START", <<"[">>)
RBracket == Piece("ARRAY_END", <<"]">>)
Colon == Piece("COLON", <<":">>)
Comma == Piece("COMMA", <<",">>)
True == Piece("BOOLEAN_TRUE", <<"t", "r", "u", "e">>)
False == Piece("BOOLEAN_FALSE", <<"f", "a", "l", "s", "e">>)
Null == Piece("NULL_VALUE", <<"n", "u", "l", "l">>)

Pieces ==
    { LBrace, RBrace, LBracket, RBracket, Colon, Comma, True, False, Null,
      Ws(" "), Ws("\t"), Ws("\r"), Ws("\n"),
      Str(<<"a">>), Str(<<BSLASH, QUOTE>>), Str(<<BSLASH, BSLASH>>),
      Num(<<"0">>), Num(<<"1">>), Num(<<"-", "2">>), Num(<<"-", "4", "2", ".", "5">>),
      Num(<<"1", "2", "3", "4", "5">>),
      Num(<<"1", ".", "2", "3", "e", "+", "1", "0">>),
      Junk(<<QUOTE>>), Junk(<<BSLASH>>), Junk(<<"a">>),
      Junk(<<"t", "r", "u">>), Junk(<<"f">>), Junk(<<"n">>),
      Junk(<<"-">>), Junk(<<".">>), Junk(<<"e">>), Junk(<<"E">>), Junk(<<"+">>),
      Junk(<<"e", "+">>), Junk(<<BSLASH, BSLASH>>),
      Junk(<<"@">>) }

\* the inputs of the tests: simple_string, simple_object, simple_array,
\* spaced_json and multiline_json
simple_string == <<Str(<<"h", "e", "l", "l", "o", " ", "w", "o", "r", "l", "d">>)>>
simple_object ==
    <<LBrace, Str(<<"k", "e", "y">>), Colon, Ws(" "), Str(<<"v", "a", "l", "u", "e">>), RBrace>>
simple_array ==
    <<LBracket, Num(<<"1">>), Comma, Ws(" "), Num(<<"2">>), Comma, Ws(" "), Num(<<"3">>), RBracket>>
spaced_json ==
    <<Ws(" "), Ws(" "), Ws("\t"), Ws("\n"), Ws(" "), Ws(" "), LBrace, Ws(" "), Ws(" "),
      Ws("\r"), Ws("\n"), Ws(" "), Ws(" "), RBrace, Ws(" "), Ws(" ")>>
multiline_json ==
    <<LBrace, Ws("\n"), Ws(" "), Ws(" "), Str(<<"k", "e", "y">>), Colon, Ws(" "),
      Str(<<"v", "a", "l", "u", "e">>), Ws("\n"), RBrace>>

TestInputs == {simple_string, simple_object, simple_array, spaced_json, multiline_json}

PieceSeqs == UNION { [1..n -> Pieces] : n \in 0..MaxPieces }

RECURSIVE Flatten(_)
Flatten(ps) == IF ps = <<>> THEN <<>> ELSE Head(ps).text \o Flatten(Tail(ps))

(***************************************************************************)
(* The state machine: a Tokenizer over one input and a caller that calls   *)
(* next_token and the extraction helpers on the token it got.              *)
(***************************************************************************)
\* Tokenizer(input): pos_(0), line_(1), column_(1)
Init ==
    /\ pieces \in PieceSeqs \cup TestInputs
    /\ input = Flatten(pieces)
    /\ pos = 0
    /\ line = 1
    /\ column = 1
    /\ result = NoCall
    /\ tokens = <<>>
    /\ extracted = NoCall

\* the number of identical outcomes at the end of the history h
RECURSIVE IdleRun(_)
IdleRun(h) ==
    IF Len(h) < 2 THEN Len(h)
    ELSE IF h[Len(h)] # h[Len(h) - 1] THEN 1
    ELSE 1 + IdleRun(SubSeq(h, 1, Len(h) - 1))

\* the caller gives up once MaxIdle calls in a row had the same outcome
Idle == IdleRun(tokens)

\* token = tokenizer.next_token()
NextToken ==
    /\ Idle < MaxIdle
    /\ LET scan == next_token(Cursor(pos, line, column)) IN
        /\ pos' = scan.cur.pos
        /\ line' = scan.cur.line
        /\ column' = scan.cur.column
        /\ result' = scan.out
        /\ tokens' = Append(tokens, scan.out)
    /\ extracted' = NoCall
    /\ UNCHANGED <<input, pieces>>

\* extract_string(token)
ExtractString ==
    /\ result.tag = "return"
    /\ extracted' = [fn |-> "extract_string", out |-> extract_string(result.token)]
    /\ UNCHANGED <<input, pos, line, column, result, tokens, pieces>>

\* extract_boolean(token)
ExtractBoolean ==
    /\ result.tag = "return"
    /\ extracted' = [fn |-> "extract_boolean", out |-> extract_boolean(result.token)]
    /\ UNCHANGED <<input, pos, line, column, result, tokens, pieces>>

\* extract_number(token)
ExtractNumber ==
    /\ result.tag = "return"
    /\ extracted' = [fn |-> "extract_number", out |-> extract_number(result.token)]
    /\ UNCHANGED <<input, pos, line, column, result, tokens, pieces>>

Next == NextToken \/ ExtractString \/ ExtractBoolean \/ ExtractNumber

Spec == Init /\ [][Next]_vars

(***************************************************************************)
(* Vocabulary of the properties, defined on the input alone                *)
(***************************************************************************)
Whitespace == {" ", "\t", "\r", "\n"}

\* the number of line feeds in input[0..p)
RECURSIVE NewlinesBefore(_)
NewlinesBefore(p) ==
    IF p = 0 THEN 0
    ELSE NewlinesBefore(p - 1) + (IF input[p] = "\n" THEN 1 ELSE 0)

\* the number of characters of input[0..p) after the last line feed
RECURSIVE SinceNewline(_)
SinceNewline(p) ==
    IF p = 0 \/ input[p] = "\n" THEN 0 ELSE 1 + SinceNewline(p - 1)

LineOf(p) == 1 + NewlinesBefore(p)
ColumnOf(p) == 1 + SinceNewline(p)

\* the offset of the first character at or after p that is no whitespace
\* (the length of the input when there is none)
RECURSIVE FirstNonWs(_)
FirstNonWs(p) ==
    IF p < Len(input) /\ input[p + 1] \in Whitespace THEN FirstNonWs(p + 1) ELSE p

\* a step of the behaviour is a call of next_token
Called == tokens' # tokens

\* the offset at which the called next_token starts its token
Start == FirstNonWs(pos)

IsEndOfInput(out) == out.tag = "return" /\ out.token.type = "END_OF_INPUT"

ValueKinds == {"NUMBER", "BOOLEAN_TRUE", "BOOLEAN_FALSE", "NULL_VALUE"}

\* the input is made of lexemes and whitespace only, and no number or literal
\* is directly followed by another number or literal
WellFormed(ps) ==
    /\ \A i \in 1..Len(ps) : ps[i].kind # "JUNK"
    /\ \A i \in 1..(Len(ps) - 1) :
         ~(ps[i].kind \in ValueKinds /\ ps[i + 1].kind \in ValueKinds)

\* the kind and text of the token of a lexeme
TokenOf(p) ==
    [type |-> p.kind,
     value |-> CASE p.kind = "STRING" -> SubSeq(p.text, 2, Len(p.text) - 1)
                 [] p.kind \in ValueKinds -> p.text
                 [] OTHER -> <<>>]

\* one token per lexeme, in input order
RECURSIVE Expected(_)
Expected(ps) ==
    IF ps = <<>> THEN <<>>
    ELSE IF Head(ps).kind = "WS" THEN Expected(Tail(ps))
    ELSE <<TokenOf(Head(ps))>> \o Expected(Tail(ps))

TypeAndValue(out) == [type |-> out.token.type, value |-> out.token.value]

(***************************************************************************)
(* C1: on an input made of valid lexemes and whitespace, with adjacent     *)
(* numbers and literals separated, the calls of next_token return one      *)
(* token per lexeme, in order, with the lexeme's kind and text, and then   *)
(* END_OF_INPUT; whitespace gives no token.                                *)
(***************************************************************************)
C1_OneTokenPerLexeme ==
    WellFormed(pieces) =>
        LET want == Expected(pieces) IN
        \A i \in 1..Len(tokens) :
            /\ tokens[i].tag = "return"
            /\ IF i <= Len(want)
               THEN TypeAndValue(tokens[i]) = want[i]
               ELSE TypeAndValue(tokens[i]) = [type |-> "END_OF_INPUT", value |-> <<>>]

\* [1, 2, 3] has given its 8 tokens, the last one END_OF_INPUT
C1_Witness ==
    /\ pieces = simple_array
    /\ Len(tokens) = 8
    /\ tokens[2].token.value = <<"1">>
    /\ IsEndOfInput(tokens[8])
    /\ ~IsEndOfInput(tokens[7])

(***************************************************************************)
(* C2: every token next_token returns for a lexeme carries the 1-based     *)
(* line and column of its first character: 1 + the line feeds before it,   *)
(* 1 + the characters since the last line feed. For {\n  "key": "value"\n} *)
(* the positions are (1,1), (2,3), (2,8), (2,10), (3,1).                   *)
(***************************************************************************)
PositionsOf(h) == [i \in 1..Len(h) |-> <<h[i].token.line, h[i].token.column>>]

C2_TokenPosition ==
    [][ (Called /\ result'.tag = "return" /\ ~IsEndOfInput(result')) =>
          /\ result'.token.line = LineOf(Start)
          /\ result'.token.column = ColumnOf(Start)
          /\ (pieces = multiline_json /\ Len(tokens') = 5 =>
                PositionsOf(tokens') = <<(<<1, 1>>), (<<2, 3>>), (<<2, 8>>), (<<2, 10>>), (<<3, 1>>)>>)
      ]_vars

\* the closing brace of the multi-line test input has been returned at (3,1)
C2_Witness ==
    /\ pieces = multiline_json
    /\ Len(tokens) = 5
    /\ result.tag = "return"
    /\ result.token.type = "OBJECT_END"
    /\ result.token.line = 3
    /\ result.token.column = 1

(***************************************************************************)
(* C3: once next_token has returned END_OF_INPUT, a later call returns     *)
(* END_OF_INPUT again, throws nothing and leaves pos, line and column      *)
(* unchanged.                                                              *)
(***************************************************************************)
C3_EndOfInputIdempotent ==
    [][ (IsEndOfInput(result) /\ Called) =>
          /\ IsEndOfInput(result')
          /\ result' = result
          /\ pos' = pos /\ line' = line /\ column' = column
      ]_vars

\* END_OF_INPUT has been returned twice in a row, after a token on line 2
C3_Witness ==
    /\ Len(tokens) >= 3
    /\ IsEndOfInput(tokens[Len(tokens)])
    /\ IsEndOfInput(tokens[Len(tokens) - 1])
    /\ ~IsEndOfInput(tokens[1])
    /\ line > 1

(***************************************************************************)
(* C4: on an input of whitespace only (the empty input included) every     *)
(* call, the first one included, returns END_OF_INPUT carrying the line    *)
(* and column of the position one past the end of the buffer.              *)
(***************************************************************************)
AllWhitespace == \A i \in 1..Len(input) : input[i] \in Whitespace

C4_WhitespaceOnly ==
    AllWhitespace =>
        \A i \in 1..Len(tokens) :
            tokens[i] = Returned(Token("END_OF_INPUT", <<>>,
                                       LineOf(Len(input)), ColumnOf(Len(input))))

\* a line feed and a tab have been skipped and END_OF_INPUT returned at (2,2)
C4_Witness ==
    /\ input = <<"\n", "\t">>
    /\ Len(tokens) >= 1
    /\ IsEndOfInput(tokens[1])
    /\ tokens[1].token.line = 2
    /\ tokens[1].token.column = 2

(***************************************************************************)
(* C5: when the cursor is on a quote and a closing quote exists, the call  *)
(* returns a STRING token whose value is the input strictly between the    *)
(* opening quote and the first quote that does not follow an escaping      *)
(* backslash, and the cursor ends one past that closing quote.             *)
(***************************************************************************)
\* the offset of the first quote at or after q that is not the character
\* following a backslash, -1 when the buffer ends first
RECURSIVE ClosingQuote(_)
ClosingQuote(q) ==
    IF q >= Len(input) THEN -1
    ELSE IF input[q + 1] = QUOTE THEN q
    ELSE IF input[q + 1] = BSLASH THEN ClosingQuote(q + 2)
    ELSE ClosingQuote(q + 1)

C5_StringToken ==
    [][ (/\ Called
         /\ Start < Len(input)
         /\ input[Start + 1] = QUOTE
         /\ ClosingQuote(Start + 1) # -1) =>
          LET close == ClosingQuote(Start + 1) IN
          /\ result'.tag = "return"
          /\ result'.token.type = "STRING"
          /\ result'.token.value = SubSeq(input, Start + 2, close)
          /\ pos' = close + 1
      ]_vars

\* the string "\"" has been returned with its escape unresolved, and more
\* input follows it
C5_Witness ==
    /\ result.tag = "return"
    /\ result.token.type = "STRING"
    /\ result.token.value = <<BSLASH, QUOTE>>
    /\ pos = 4
    /\ Len(input) > 4

(***************************************************************************)
(* The JSON number grammar as a finite automaton: optional -, then 0 or a  *)
(* nonzero digit and digits, optional . and digits, optional e or E, sign  *)
(* and digits.                                                             *)
(***************************************************************************)
NumAccepting == {"zero", "int", "frac", "exp"}

NumDelta(q, c) ==
    CASE q = "start" /\ c = "-" -> "minus"
      [] q \in {"start", "minus"} /\ c = "0" -> "zero"
      [] q \in {"start", "minus"} /\ c \in Digits \ {"0"} -> "int"
      [] q = "int" /\ c \in Digits -> "int"
      [] q \in {"zero", "int"} /\ c = "." -> "dot"
      [] q \in {"dot", "frac"} /\ c \in Digits -> "frac"
      [] q \in {"zero", "int", "frac"} /\ c \in {"e", "E"} -> "e"
      [] q = "e" /\ c \in {"+", "-"} -> "esign"
      [] q \in {"e", "esign", "exp"} /\ c \in Digits -> "exp"
      [] OTHER -> "dead"

\* the automaton run from offset p in state q after n characters: the length
\* of the longest lexeme seen, the characters read and the state reached
RECURSIVE NumRun(_, _, _, _)
NumRun(q, p, n, best) ==
    IF p < Len(input) /\ NumDelta(q, input[p + 1]) # "dead"
    THEN LET q2 == NumDelta(q, input[p + 1]) IN
         NumRun(q2, p + 1, n + 1, IF q2 \in NumAccepting THEN n + 1 ELSE best)
    ELSE [best |-> best, read |-> n, state |-> q]

NumberAt(p) == NumRun("start", p, 0, 0)

OnNumber == Start < Len(input) /\ input[Start + 1] \in ({"-"} \cup Digits)

NumberToken(p, n) ==
    /\ result'.tag = "return"
    /\ result'.token.type = "NUMBER"
    /\ result'.token.value = SubSeq(input, p + 1, p + n)
    /\ pos' = p + n

NumberExamples ==
    { <<"-", "4", "2", ".", "5">>, <<"1", "2", "3", "4", "5">>,
      <<"1", ".", "2", "3", "e", "+", "1", "0">>, <<"0">> }

\* on an input that is just one of the four examples: the NUMBER, then
\* nothing but END_OF_INPUT
ExampleTokens ==
    input \in NumberExamples =>
        IF tokens = <<>>
        THEN TypeAndValue(result') = [type |-> "NUMBER", value |-> input]
        ELSE IsEndOfInput(result')

Literals == {True, False, Null}

\* the characters of t are the input from offset p on
Upcoming(p, t) == p + Len(t) <= Len(input) /\ SubSeq(input, p + 1, p + Len(t)) = t

C7_LiteralToken ==
    [][ Called =>
          \A lit \in Literals :
              Upcoming(Start, lit.text) =>
                  /\ result'.tag = "return"
                  /\ result'.token.type = lit.kind
                  /\ result'.token.value = lit.text
                  /\ pos' = Start + Len(lit.text)
      ]_vars

\* false has been returned and the input that follows it is left unread
C7_Witness ==
    /\ result.tag = "return"
    /\ result.token.type = "BOOLEAN_FALSE"
    /\ result.token.value = <<"f", "a", "l", "s", "e">>
    /\ pos = 5
    /\ Len(input) > 5

(***************************************************************************)
(* C8: when, after the whitespace, the cursor is on a character that       *)
(* starts no token, the call throws Unexpected character with the line and *)
(* column of that character, returns no token and leaves the cursor on the *)
(* character.                                                              *)
(***************************************************************************)
TokenStarts == {"{", "}", "[", "]", ":", ",", QUOTE, "t", "f", "n", "-"} \cup Digits

C8_UnexpectedCharacter ==
    [][ (Called /\ Start < Len(input) /\ input[Start + 1] \notin TokenStarts) =>
          /\ result' = TokenizerError(<<"Unexpected character: ", input[Start + 1]>>,
                                      LineOf(Start), ColumnOf(Start))
          /\ pos' = Start
      ]_vars

\* @ on the second line has been reported and the cursor rests on it
C8_Witness ==
    /\ input = <<"\n", "@">>
    /\ result = TokenizerError(<<"Unexpected character: ", "@">>, 2, 1)
    /\ pos = 1

(***************************************************************************)
(* C9: a lexical error is delivered in-band. On an input whose first       *)
(* character after the whitespace starts no token, next_token returns a    *)
(* token of type ERROR with error UNEXPECTED_CHARACTER, for which          *)
(* is_error() holds and is_valid() does not; every token returned for a    *)
(* well-formed input, END_OF_INPUT included, satisfies is_valid().         *)
(***************************************************************************)
\* is_error() and is_valid() as the tests use them: a predicate on the kind
\* of a returned token
IsError(out) == out.tag = "return" /\ out.token.type = "ERROR"
IsValid(out) == out.tag = "return" /\ out.token.type # "ERROR"

UnrecognizedFirst ==
    LET first == FirstNonWs(0) IN
    first < Len(input) /\ input[first + 1] \notin TokenStarts

C9_InBandError ==
    /\ (UnrecognizedFirst /\ tokens # <<>>) =>
          /\ IsError(tokens[1])
          /\ ~IsValid(tokens[1])
          /\ tokens[1].token.error = "UNEXPECTED_CHARACTER"
    /\ WellFormed(pieces) => \A i \in 1..Len(tokens) : IsValid(tokens[i])

(***************************************************************************)
(* C10: extract_string, extract_boolean and extract_number never raise:    *)
(* for a token of another kind (structural and END_OF_INPUT included) each *)
(* returns an absence of value.                                            *)
(***************************************************************************)
C10_ExtractNeverRaises ==
    extracted # NoCall => extracted.out.tag = "return"

(***************************************************************************)
(* C11: extract_boolean yields true for a BOOLEAN_TRUE token and false for *)
(* a BOOLEAN_FALSE token and succeeds for no other kind; extract_string    *)
(* yields the value of a STRING token and succeeds for no other kind.      *)
(***************************************************************************)
C11_ExtractValues ==
    (extracted # NoCall /\ extracted.fn \in {"extract_boolean", "extract_string"}) =>
        LET tok == result.token
            out == extracted.out
        IN  IF extracted.fn = "extract_boolean"
            THEN CASE tok.type = "BOOLEAN_TRUE" -> out = Value(TRUE)
                   [] tok.type = "BOOLEAN_FALSE" -> out = Value(FALSE)
                   [] OTHER -> out.tag # "return"
            ELSE IF tok.type = "STRING"
                 THEN out = Value(tok.value)
                 ELSE out.tag # "return"

\* false has been extracted from the BOOLEAN_FALSE token of the input false
C11_Witness ==
    /\ extracted # NoCall
    /\ extracted.fn = "extract_boolean"
    /\ result.token.type = "BOOLEAN_FALSE"
    /\ extracted.out = Value(FALSE)

(***************************************************************************)
(* C12: when the buffer ends before the closing quote of a string, the     *)
(* error of the call carries the line and column of the opening quote, not *)
(* of the place where the buffer ended.                                    *)
(***************************************************************************)
OnUnterminatedString ==
    /\ Start < Len(input)
    /\ input[Start + 1] = QUOTE
    /\ ClosingQuote(Start + 1) = -1

C12_UnterminatedStringPosition ==
    [][ (Called /\ OnUnterminatedString) =>
          /\ result'.tag = "throw"
          /\ result'.line = LineOf(Start)
          /\ result'.column = ColumnOf(Start)
      ]_vars

(***************************************************************************)
(* C13: when the cursor is on t, f or n and the upcoming characters are    *)
(* not the expected literal, or the buffer ends early, the call reports    *)
(* Invalid literal with the line and column of the first character of the  *)
(* literal.                                                                *)
(***************************************************************************)
OnInvalidLiteral ==
    /\ Start < Len(input)
    /\ \E lit \in Literals :
         /\ input[Start + 1] = lit.text[1]
         /\ ~Upcoming(Start, lit.text)

C13_InvalidLiteralPosition ==
    [][ (Called /\ OnInvalidLiteral) =>
          result' = TokenizerError(<<"Invalid literal">>, LineOf(Start), ColumnOf(Start))
      ]_vars

(***************************************************************************)
(* C14: a 0 directly followed by another digit (01, -007) is an error like *)
(* Invalid number format: the call that meets it returns no NUMBER token,  *)
(* neither 01 nor 0 with the next call returning the rest as a NUMBER.     *)
(***************************************************************************)
\* the offset of the integer part of the number at the cursor
IntegerStart == IF input[Start + 1] = "-" THEN Start + 1 ELSE Start

OnLeadingZero ==
    /\ OnNumber
    /\ IntegerStart + 1 < Len(input)
    /\ input[IntegerStart + 1] = "0"
    /\ input[IntegerStart + 2] \in Digits

C14_LeadingZeroRejected ==
    [][ (Called /\ OnLeadingZero) => result'.tag = "throw" ]_vars

(***************************************************************************)
(* C15: number scanning reports the right error and returns no NUMBER      *)
(* token: Invalid number format when a leading - is not followed by a      *)
(* digit, missing fractional digits when the . after the integer part is   *)
(* not followed by a digit, missing exponent digits when e or E, with an   *)
(* optional sign, is not followed by a digit; the end of the buffer at     *)
(* that point counts as no digit.                                          *)
(***************************************************************************)
NumberError(msg) == result'.tag = "throw" /\ result'.message = <<msg>>

C15_NumberErrors ==
    [][ (Called /\ OnNumber) =>
          LET run == NumberAt(Start) IN
          /\ run.state = "minus" => NumberError("Invalid number format")
          /\ run.state = "dot" =>
                NumberError("Invalid number format: missing fractional digits")
          /\ run.state \in {"e", "esign"} =>
                NumberError("Invalid number format: missing exponent digits")
      ]_vars

\* on 1e+ the buffer ended after the sign of the exponent
C15_Witness ==
    /\ input = <<"1", "e", "+">>
    /\ result.tag = "throw"
    /\ result.message = <<"Invalid number format: missing exponent digits">>
    /\ pos = 3

(***************************************************************************)
(* C16: when the buffer ends inside a string, the error is Unterminated    *)
(* string escape exactly when the buffer ends right after a backslash that *)
(* begins an escape, and Unterminated string otherwise; no STRING token is *)
(* returned.                                                               *)
(***************************************************************************)
\* scanning the string body from offset q, the buffer ends right after a
\* backslash that begins an escape
RECURSIVE EndsInEscape(_)
EndsInEscape(q) ==
    IF q >= Len(input) THEN FALSE
    ELSE IF input[q + 1] = BSLASH
         THEN (q + 1 = Len(input)) \/ EndsInEscape(q + 2)
         ELSE EndsInEscape(q + 1)

C16_UnterminatedKinds ==
    [][ (Called /\ OnUnterminatedString) =>
          /\ result'.tag = "throw"
          /\ result'.message = IF EndsInEscape(Start + 1)
                               THEN <<"Unterminated string escape">>
                               ELSE <<"Unterminated string">>
      ]_vars

\* on "\\ the buffer ends after a backslash that is itself escaped
C16_Witness ==
    /\ input = <<QUOTE, BSLASH, BSLASH>>
    /\ result.tag = "throw"
    /\ result.message = <<"Unterminated string">>
    /\ pos = 3

(***************************************************************************)
(* C17: one error discipline on every scan path: an unterminated string,   *)
(* an invalid literal, a malformed number and an unexpected character are  *)
(* all reported by the same mechanism, a thrown TokenizerError carrying    *)
(* line and column, and none of them as a returned token.                  *)
(***************************************************************************)
OnUnexpectedCharacter == Start < Len(input) /\ input[Start + 1] \notin TokenStarts

OnMalformedNumber ==
    OnNumber /\ (NumberAt(Start).best = 0 \/ NumberAt(Start).read > NumberAt(Start).best)

\* the scan path that fails at the cursor, "" when none does
FailingPath ==
    CASE OnUnterminatedString -> "string"
      [] OnInvalidLiteral -> "literal"
      [] OnMalformedNumber -> "number"
      [] OnUnexpectedCharacter -> "unknown-character"
      [] OTHER -> ""

C17_OneErrorDiscipline ==
    [][ Called =>
          IF FailingPath # ""
          THEN /\ result'.tag = "throw"
               /\ DOMAIN result' = {"tag", "message", "line", "column"}
               /\ result'.line \in Nat /\ result'.column \in Nat
          ELSE /\ result'.tag = "return"
               /\ result'.token.type \in TokenType
      ]_vars

\* the call history of one tokenizer holds a thrown error of the literal path
\* followed by one of the unknown-character path
C17_Witness ==
    /\ input = <<"t", "r", "u", "@">>
    /\ Len(tokens) = 2
    /\ tokens[1] = TokenizerError(<<"Invalid literal">>, 1, 4)
    /\ tokens[2] = TokenizerError(<<"Unexpected character: ", "@">>, 1, 4)

(***************************************************************************)
(* C18: round trip of spans. For an input tokenized without error, the     *)
(* spans of the successive tokens (from the recorded line and column, as   *)
(* long as the lexeme, the quotes of a string included) are disjoint and   *)
(* in increasing order, the input at each span is the token's lexeme, and  *)
(* every character outside the spans is whitespace, so the lexemes and the *)
(* whitespace rebuild the input.                                           *)
(***************************************************************************)
\* the offset at which line l starts, scanning from offset p on line 1; -1
\* when the input has no such line
RECURSIVE LineStart(_, _)
LineStart(l, p) ==
    IF l <= 1 THEN p
    ELSE IF p >= Len(input) THEN -1
    ELSE LineStart(IF input[p + 1] = "\n" THEN l - 1 ELSE l, p + 1)

\* the offset whose line and column are l and c, when there is one
OffsetOf(l, c) ==
    LET start == LineStart(l, 0) IN
    IF start = -1 THEN -1 ELSE start + c - 1

HasOffset(l, c) ==
    LET p == OffsetOf(l, c) IN
    p \in 0..Len(input) /\ LineOf(p) = l /\ ColumnOf(p) = c

\* the text of a token in the input
LexemeOf(tok) ==
    CASE tok.type = "STRING" -> <<QUOTE>> \o tok.value \o <<QUOTE>>
      [] tok.type = "OBJECT_START" -> <<"{">>
      [] tok.type = "OBJECT_END" -> <<"}">>
      [] tok.type = "ARRAY_START" -> <<"[">>
      [] tok.type = "ARRAY_END" -> <<"]">>
      [] tok.type = "COLON" -> <<":">>
      [] tok.type = "COMMA" -> <<",">>
      [] tok.type = "END_OF_INPUT" -> <<>>
      [] OTHER -> tok.value

SpanStart(tok) == OffsetOf(tok.line, tok.column)
SpanEnd(tok) == SpanStart(tok) + Len(LexemeOf(tok))

NoError == \A i \in 1..Len(tokens) : tokens[i].tag = "return"

C18_SpanRoundTrip ==
    NoError =>
        \A i \in 1..Len(tokens) :
            LET tok == tokens[i].token
                from == IF i = 1 THEN 0 ELSE SpanEnd(tokens[i - 1].token)
                start == SpanStart(tok)
                end == start + Len(LexemeOf(tok))
            IN  /\ HasOffset(tok.line, tok.column)
                /\ from <= start
                /\ end <= Len(input)
                /\ SubSeq(input, start + 1, end) = LexemeOf(tok)
                /\ \A p \in (from + 1)..start : input[p] \in Whitespace
                /\ tok.type = "END_OF_INPUT" => start = Len(input)

\* {"key": "value"} has been tokenized to its end
C18_Witness ==
    /\ pieces = simple_object
    /\ NoError
    /\ Len(tokens) = 6
    /\ IsEndOfInput(tokens[6])
    /\ tokens[4].token.value = <<"v", "a", "l", "u", "e">>

(***************************************************************************)
(* C19: tokenizing terminates. A call that returns a token other than      *)
(* END_OF_INPUT strictly advances pos, so a caller that loops until        *)
(* END_OF_INPUT or the first error makes at most len(input) + 1 calls.     *)
(***************************************************************************)
\* the loop of the caller is still running: every call so far returned a
\* token other than END_OF_INPUT
LoopRunning ==
    \A i \in 1..Len(tokens) : tokens[i].tag = "return" /\ ~IsEndOfInput(tokens[i])

C19_Terminates ==
    [][ Called =>
          /\ (result'.tag = "return" /\ ~IsEndOfInput(result')) => pos' > pos
          /\ LoopRunning => Len(tokens') <= Len(input) + 1
      ]_vars

\* [1, 2, 3]: the loop has ended with END_OF_INPUT at its 8th call
C19_Witness ==
    /\ pieces = simple_array
    /\ Len(tokens) = 8
    /\ IsEndOfInput(result)
    /\ \A i \in 1..7 : tokens[i].tag = "return" /\ ~IsEndOfInput(tokens[i])
    /\ pos = Len(input)

(***************************************************************************)
(* C20: position invariant. In every reachable state, after construction   *)
(* and after any calls, failing ones included, line is 1 + the line feeds  *)
(* in input[0..pos) and column is 1 + the characters of input[0..pos)      *)
(* after the last line feed.                                               *)
(***************************************************************************)
C20_PositionInvariant ==
    /\ pos \in 0..Len(input)
    /\ line = LineOf(pos)
    /\ column = ColumnOf(pos)

\* a call has failed on the second line, at the end of an unterminated string
C20_Witness ==
    /\ result.tag = "throw"
    /\ result.message = <<"Unterminated string">>
    /\ line = 2
    /\ column = 2
    /\ pos = 2

(***************************************************************************)
(* C21: across any sequence of next_token calls, failing ones included,    *)
(* pos never decreases and stays within 0..len(input), and the input       *)
(* buffer is never modified.                                               *)
(***************************************************************************)
C21_PosMonotone ==
    [][ /\ pos' >= pos
        /\ pos >= 0
        /\ pos' <= Len(input)
        /\ input' = input
      ]_vars

\* -true: a call has failed at offset 1 and the next one moved pos to the end
C21_Witness ==
    /\ input = <<"-", "t", "r", "u", "e">>
    /\ Len(tokens) = 2
    /\ tokens[1] = TokenizerError(<<"Invalid number format">>, 1, 2)
    /\ tokens[2].tag = "return"
    /\ pos = 5

(***************************************************************************)
(* C22: when the first character after the whitespace at the cursor is one *)
(* of { } [ ] : , the call consumes exactly that character and returns the *)
(* corresponding structural token (OBJECT_START, OBJECT_END, ARRAY_START,  *)
(* ARRAY_END, COLON, COMMA) with empty value, whatever follows it.         *)
(***************************************************************************)
StructuralKind(c) ==
    CASE c = "{" -> "OBJECT_START"
      [] c = "}" -> "OBJECT_END"
      [] c = "[" -> "ARRAY_START"
      [] c = "]" -> "ARRAY_END"
      [] c = ":" -> "COLON"
      [] c = "," -> "COMMA"
      [] OTHER -> ""

OnStructural == Start < Len(input) /\ StructuralKind(input[Start + 1]) # ""

C22_StructuralToken ==
    [][ (Called /\ OnStructural) =>
          /\ result'.tag = "return"
          /\ result'.token.type = StructuralKind(input[Start + 1])
          /\ result'.token.value = <<>>
          /\ pos' = Start + 1
      ]_vars

\* ,@ : the comma is returned although no token can follow it
C22_Witness ==
    /\ input = <<",", "@">>
    /\ Len(tokens) = 1
    /\ result = Returned(Token("COMMA", <<>>, 1, 1))
    /\ pos = 1

(***************************************************************************)
(* C23: a failing call does not rewind. When string, literal or number     *)
(* scanning fails, the characters scanned before the detection stay        *)
(* consumed and the cursor rests where the failure was detected (the end   *)
(* of the buffer for an unterminated string, the first mismatching         *)
(* character for a literal, the place where a digit was missing for a      *)
(* number), with pos <= len(input) and line and column in step with pos;   *)
(* the next call resumes from there: on tru} the first call fails with     *)
(* Invalid literal and the second returns OBJECT_END.                      *)
(***************************************************************************)
\* input[p..m) is a proper prefix of t and the character at m, if any, is not
\* the next one of t
MismatchAt(p, t, m) ==
    /\ m \in p..Len(input)
    /\ m - p < Len(t)
    /\ SubSeq(input, p + 1, m) = SubSeq(t, 1, m - p)
    /\ (m = Len(input) \/ input[m + 1] # t[m - p + 1])

\* p is the offset at which the failure of the call is detected
DetectedAt(p) ==
    CASE FailingPath = "string" -> p = Len(input)
      [] FailingPath = "literal" ->
            \E lit \in Literals :
                input[Start + 1] = lit.text[1] /\ MismatchAt(Start, lit.text, p)
      [] FailingPath = "number" -> p = Start + NumberAt(Start).read
      [] OTHER -> FALSE

C23_NoRewind ==
    [][ Called =>
          /\ FailingPath \in {"string", "literal", "number"} =>
                /\ result'.tag = "throw"
                /\ DetectedAt(pos')
                /\ pos' > Start
                /\ pos' <= Len(input)
                /\ line' = LineOf(pos')
                /\ column' = ColumnOf(pos')
          /\ (input = <<"t", "r", "u", "}">> /\ Len(tokens') = 2) =>
                tokens' = << TokenizerError(<<"Invalid literal">>, 1, 4),
                             Returned(Token("OBJECT_END", <<>>, 1, 4)) >>
      ]_vars

\* tru}: the failed call left the cursor on } and the next call returned it
C23_Witness ==
    /\ input = <<"t", "r", "u", "}">>
    /\ Len(tokens) = 2
    /\ tokens[1].tag = "throw"
    /\ result = Returned(Token("OBJECT_END", <<>>, 1, 4))
    /\ pos = 4

(***************************************************************************)
(* C24: no delimiter is needed after a literal or a number. On literals    *)
(* and numbers written one directly after the other, such as truefalse,    *)
(* nullnull or 1-2, where no number is followed by a digit that would      *)
(* continue it, the calls return one token per lexeme without error, each  *)
(* starting where the one before ended, and then END_OF_INPUT.             *)
(***************************************************************************)
\* two or more literals and numbers with nothing between them, no number
\* followed by a digit
Adjacent(ps) ==
    /\ Len(ps) >= 2
    /\ \A i \in 1..Len(ps) : ps[i].kind \in ValueKinds
    /\ \A i \in 1..(Len(ps) - 1) :
         ps[i].kind = "NUMBER" => ps[i + 1].text[1] \notin Digits

\* the offset of the i-th piece in the input
OffsetOfPiece(ps, i) == Len(Flatten(SubSeq(ps, 1, i - 1)))

====
